---- MODULE Spec2Model ----
(***************************************************************************)
(* Model of the ldap_entry resource of terraform-provider-ldap:            *)
(* internal/provider/ldap_entry_resource.go (the second, current revision   *)
(* in the file, lines 558-1107), the shared helpers (MarshalLdapResults,    *)
(* LdapSearch, ProcessUnicodePwd, ...) and the ldap_search data source      *)
(* (ldap_search_data_source.go, the first revision in the file).            *)
(*                                                                         *)
(* Representation                                                          *)
(*   types.List   [kind, elems]        elems a sequence of strings          *)
(*   types.Map    [kind, elems]        elems a function name -> types.List  *)
(*                kind is "null", "unknown" or "known"                      *)
(*   []string     a sequence (nil and empty are both << >>: the code only   *)
(*                reads len() and ranges over slices)                       *)
(*   map[string][]string   a function name -> sequence                      *)
(***************************************************************************)
EXTENDS Integers, Sequences, FiniteSets, Bags, TLC

VARIABLES
    config,     \* the resource block of the configuration (LdapEntryResourceModel)
    tfstate,    \* the state Terraform persists for the resource
    dir,        \* the entry on the directory server
    server,     \* how the directory server spells the attribute names it returns
    client,     \* r.client: the connection Configure stored ("conn"), or "nil"
    private,    \* the private state of the resource (import_attributes)
    last,       \* the latest handler call of the resource: its prior state, the
                \* request it sent (req, calls), the result of the encoder or of
                \* the client (err) and whether it ended without a diagnostic (ok)
    call        \* the latest call of a pure function (SpecEq, SpecPlan), or the
                \* data source: its configuration, its latest Read and its state

vars == <<config, tfstate, dir, server, client, private, last, call>>

(***************************************************************************)
(* Bounds                                                                  *)
(***************************************************************************)
\* Longest value list drawn as an input of the pure functions.
MaxLen == 2

\* Attribute values of the pure-function inputs; "A" and "a" differ only in case.
EqValues == {"A", "a", "b"}

SeqsUpTo(S, n) == UNION {[1..k -> S] : k \in 0..n}

(***************************************************************************)
(* Go strings: sort.Strings orders by bytes, "A" (0x41) < "a" (0x61) < "b" *)
(***************************************************************************)
\* encodeUnicodePwd: the password in double quotes, transcoded to UTF-16LE.
encodeUnicodePwd(password) == "utf16le:\"" \o password \o "\""

\* An encoded password starts with the quote (0x22) and sorts before the letters.
ByteOrder ==
    <<encodeUnicodePwd("a"), encodeUnicodePwd("b"), encodeUnicodePwd("p"),
      encodeUnicodePwd("q"), "A", "a", "b", "p", "q">>

Rank(v) == CHOOSE i \in 1..Len(ByteOrder) : ByteOrder[i] = v

RECURSIVE InsertSorted(_, _)
InsertSorted(v, s) ==
    IF s = <<>> THEN <<v>>
    ELSE IF Rank(v) <= Rank(Head(s)) THEN <<v>> \o s
    ELSE <<Head(s)>> \o InsertSorted(v, Tail(s))

\* sort.Strings on a copy of the slice
RECURSIVE SortStrings(_)
SortStrings(s) ==
    IF s = <<>> THEN <<>> ELSE InsertSorted(Head(s), SortStrings(Tail(s)))

\* Case folding of the strings of the model (strings.ToLower / strings.EqualFold).
Fold(s) ==
    CASE s = "A" -> "a"
      [] s = "objectClass" -> "objectclass"
      [] OTHER -> s

\* Mutant of stringSlicesEqual: compares the values case-insensitively.
stringSlicesEqual_Fold(a, b) ==
    /\ Len(a) = Len(b)
    /\ LET aSorted == SortStrings([i \in 1..Len(a) |-> Fold(a[i])])
           bSorted == SortStrings([i \in 1..Len(b) |-> Fold(b[i])])
       IN \A i \in 1..Len(aSorted) : aSorted[i] = bSorted[i]

\* stringSlicesEqual: equal lengths, then the sorted copies agree position by position.
stringSlicesEqual(a, b) ==
    IF Len(a) # Len(b) THEN FALSE
    ELSE LET aSorted == SortStrings(a)
             bSorted == SortStrings(b)
         IN \A i \in 1..Len(aSorted) : aSorted[i] = bSorted[i]


(***************************************************************************)
(* terraform-plugin-framework values                                       *)
(***************************************************************************)
NullList == [kind |-> "null", elems |-> <<>>]
UnknownList == [kind |-> "unknown", elems |-> <<>>]
ListValue(s) == [kind |-> "known", elems |-> s]

\* A Go map with no key
NoAttrs == [k \in {} |-> <<>>]

NullMap == [kind |-> "null", elems |-> NoAttrs]
UnknownMap == [kind |-> "unknown", elems |-> NoAttrs]
MapValue(f) == [kind |-> "known", elems |-> f]

NullInt64 == [kind |-> "null", value |-> 0]
Int64Value(n) == [kind |-> "known", value |-> n]

\* types.String null (ValueString() of it is the empty string)
NullString == ""

\* unmarshalTerraformAttributes: every key of tfMap is written into attrs; a null
\* list decodes to a nil slice (ElementsAs on a null value zeroes a nil-able
\* target), so a null attribute arrives in attrs with no values.
unmarshalTerraformAttributes(tfMap, attrs) ==
    [k \in DOMAIN attrs \cup DOMAIN tfMap.elems |->
        IF k \in DOMAIN tfMap.elems THEN tfMap.elems[k].elems ELSE attrs[k]]

\* ProcessUnicodePwd calls encodeUnicodePwd: attributes has unicodePwd with a value.
EncodesUnicodePwd(attributes) ==
    "unicodePwd" \in DOMAIN attributes /\ Len(attributes["unicodePwd"]) > 0

\* ProcessUnicodePwd: the first unicodePwd value, encoded, replaces the list.
ProcessUnicodePwd(attributes) ==
    IF "unicodePwd" \in DOMAIN attributes /\ Len(attributes["unicodePwd"]) > 0
    THEN [attributes EXCEPT !["unicodePwd"] = <<encodeUnicodePwd(attributes["unicodePwd"][1])>>]
    ELSE attributes

(***************************************************************************)
(* AttributesSetSemanticsModifier.PlanModifyMap                            *)
(***************************************************************************)
\* Mutant of PlanAllEqual: an empty config list is skipped as a null one is.
PlanAllEqual_EmptyAsNull(configMap, stateMap) ==
    \A key \in DOMAIN configMap :
        \/ configMap[key].kind = "null"
        \/ configMap[key].elems = <<>>
        \/ /\ key \in DOMAIN stateMap
           /\ configMap[key].kind = "known"
           /\ stateMap[key].kind # "unknown"
           /\ stringSlicesEqual(configMap[key].elems, stateMap[key].elems)

\* The comparison loop leaves allEqual true and reaches its end: every non-null
\* config list is known, has its key in state and is set-equal to the state list.
PlanAllEqual(configMap, stateMap) ==
    \A key \in DOMAIN configMap :
        \/ configMap[key].kind = "null"
        \/ /\ key \in DOMAIN stateMap
           /\ configMap[key].kind = "known"
           /\ stateMap[key].kind # "unknown"
           /\ stringSlicesEqual(configMap[key].elems, stateMap[key].elems)

\* Mutant of PlanModifyMap: the plan is the state map whenever all are equal,
\* keeping attributes of state that the config omits.
PlanModifyMap_KeepState(ConfigValue, StateValue, PlanValue) ==
    IF ConfigValue.kind # "known" \/ StateValue.kind # "known" THEN PlanValue
    ELSE IF PlanAllEqual(ConfigValue.elems, StateValue.elems) THEN StateValue
    ELSE PlanValue

PlanModifyMap(ConfigValue, StateValue, PlanValue) ==
    IF ConfigValue.kind = "null" \/ StateValue.kind = "null" THEN PlanValue
    ELSE IF ConfigValue.kind = "unknown" \/ StateValue.kind = "unknown" THEN PlanValue
    ELSE LET configMap == ConfigValue.elems
             stateMap == StateValue.elems
         IN IF PlanAllEqual(configMap, stateMap)
            THEN LET keys == {key \in DOMAIN configMap :
                                 configMap[key].kind = "null" => key \in DOMAIN stateMap}
                 IN MapValue([key \in keys |->
                        IF key \in DOMAIN stateMap THEN stateMap[key]
                        ELSE configMap[key]])
            ELSE PlanValue

(***************************************************************************)
(* LdapEntryResource.Update: the modify request                            *)
(***************************************************************************)
Replace(name, vals) == [op |-> "Replace", name |-> name, vals |-> vals]
Delete(name) == [op |-> "Delete", name |-> name, vals |-> <<>>]

\* versionChanged := !plan.AttributesWOVer.Equal(state.AttributesWOVer)
versionChanged(plan, state) == plan.AttributesWOVer # state.AttributesWOVer

\* Mutant of TransmitsWO: the write-only attributes are merged on every update.
TransmitsWO_Always(plan, cfg, state) == cfg.AttributesWO.kind # "null"

\* The condition under which Update merges config.AttributesWO into the request.
TransmitsWO(plan, cfg, state) ==
    versionChanged(plan, state) /\ cfg.AttributesWO.kind # "null"

\* The attributes map of Update: the plan's attributes, overlaid with the
\* write-only attributes of the config (then ProcessUnicodePwd) if transmitted.
UpdateAttributes(plan, cfg, state) ==
    LET attributes == unmarshalTerraformAttributes(plan.Attributes, NoAttrs)
    IN IF TransmitsWO(plan, cfg, state)
       THEN ProcessUnicodePwd(unmarshalTerraformAttributes(cfg.AttributesWO, attributes))
       ELSE attributes

\* Mutant of ChangedOps: an empty list is sent as a Replace with no values.
ChangedOps_ReplaceEmpty(attributes, currentAttrs) ==
    {Replace(key, attributes[key]) :
        key \in {k \in DOMAIN attributes :
                    \/ k \notin DOMAIN currentAttrs
                    \/ ~stringSlicesEqual(currentAttrs[k], attributes[k])}}

\* Mutant of ChangedOps: an empty list is always deleted, whatever state holds.
ChangedOps_DeleteEmptyAlways(attributes, currentAttrs) ==
    {IF Len(attributes[key]) = 0 THEN Delete(key) ELSE Replace(key, attributes[key]) :
        key \in {k \in DOMAIN attributes :
                    \/ k \notin DOMAIN currentAttrs
                    \/ Len(attributes[k]) = 0
                    \/ ~stringSlicesEqual(currentAttrs[k], attributes[k])}}

\* Mutant of ChangedOps: an attribute missing from state is not written.
ChangedOps_SkipMissing(attributes, currentAttrs) ==
    {IF Len(attributes[key]) = 0 THEN Delete(key) ELSE Replace(key, attributes[key]) :
        key \in {k \in DOMAIN attributes :
                    /\ k \in DOMAIN currentAttrs
                    /\ ~stringSlicesEqual(currentAttrs[k], attributes[k])}}

\* First loop of Update ("Update changed attributes"): one operation per key of
\* attributes that state lacks or holds with a list that is not set-equal.
ChangedOps(attributes, currentAttrs) ==
    {IF Len(attributes[key]) = 0 THEN Delete(key) ELSE Replace(key, attributes[key]) :
        key \in {k \in DOMAIN attributes :
                    \/ k \notin DOMAIN currentAttrs
                    \/ ~stringSlicesEqual(currentAttrs[k], attributes[k])}}

\* Mutant of RemovedOps: attributes dropped from the configuration are left alone.
RemovedOps_None(attributes, currentAttrs) == {}

\* Second loop of Update ("Remove attributes that are no longer present").
RemovedOps(attributes, currentAttrs) ==
    {Delete(key) : key \in {k \in DOMAIN currentAttrs : k \notin DOMAIN attributes}}

\* modifyReq.Changes, as a bag: Go ranges over maps in no fixed order, so only the
\* operations and how often each occurs are determined.
UpdateChanges(plan, cfg, state) ==
    LET attributes == UpdateAttributes(plan, cfg, state)
        currentAttrs == unmarshalTerraformAttributes(state.Attributes, NoAttrs)
    IN SetToBag(ChangedOps(attributes, currentAttrs))
         (+) SetToBag(RemovedOps(attributes, currentAttrs))

(***************************************************************************)
(* The directory server behind r.client (go-ldap): one entry, its          *)
(* attributes keyed case-insensitively, each holding a set of values.      *)
(***************************************************************************)
TheDN == "uid=u,dc=x"

Range(s) == {s[i] : i \in 1..Len(s)}

\* The spelling the server's schema gives an attribute name.
Canonical(n) == IF n = "objectclass" THEN "objectClass" ELSE n

NoEntry == [exists |-> FALSE]
Entry(attrs) == [exists |-> TRUE, attrs |-> attrs]

\* attrs with the values of a map[string][]string written over it; an attribute
\* left with no value does not exist.
StoreAttrs(attrs, written) ==
    LET names == DOMAIN attrs \cup {Fold(k) : k \in DOMAIN written}
        valueOf(n) == IF \E k \in DOMAIN written : Fold(k) = n
                      THEN UNION {Range(written[k]) : k \in {x \in DOMAIN written : Fold(x) = n}}
                      ELSE attrs[n]
    IN [n \in {m \in names : valueOf(m) # {}} |-> valueOf(n)]

\* A set of modify operations on distinct names, applied to the entry.
ApplyOps(entry, ops) ==
    LET touched == {Fold(o.name) : o \in ops}
        replaced == {o \in ops : o.op = "Replace" /\ o.vals # <<>>}
        kept == {n \in DOMAIN entry.attrs : n \notin touched}
        names == kept \cup {Fold(o.name) : o \in replaced}
    IN Entry([n \in names |->
                IF n \in kept THEN entry.attrs[n]
                ELSE Range((CHOOSE o \in replaced : Fold(o.name) = n).vals)])

\* All orders in which the server may return the values of an attribute.
Perms(S) == {s \in [1..Cardinality(S) -> S] : Range(s) = S}

\* The answers of a base search for the requested names on an existing entry:
\* every requested attribute that exists, its values in any order, its name as
\* the request spells it (echo) or as the server's schema spells it.
SearchAnswers(entry, requested, echo) ==
    LET present == {n \in DOMAIN entry.attrs : \E r \in requested : Fold(r) = n}
        spellings(n) == IF echo THEN {r \in requested : Fold(r) = n} ELSE {Canonical(n)}
        namings == {sp \in [present -> requested \cup {Canonical(n) : n \in present}] :
                       \A n \in present : sp[n] \in spellings(n)}
        orders == {f \in [present -> UNION {Perms(entry.attrs[n]) : n \in present}] :
                       \A n \in present : Range(f[n]) = entry.attrs[n]
                                          /\ Len(f[n]) = Cardinality(entry.attrs[n])}
    IN {[name \in {sp[n] : n \in present} |->
            f[CHOOSE n \in present : sp[n] = name]] : sp \in namings, f \in orders}

(***************************************************************************)
(* MarshalLdapResults (one entry)                                          *)
(***************************************************************************)
\* Mutant of MarshalLdapResults: a requested name the answer lacks is not filled in.
MarshalLdapResults_NoFill(answer, requestedAttributes) ==
    MapValue([name \in DOMAIN answer |-> ListValue(answer[name])])

MarshalLdapResults(answer, requestedAttributes) ==
    MapValue([name \in DOMAIN answer \cup requestedAttributes |->
                IF name \in DOMAIN answer THEN ListValue(answer[name])
                ELSE ListValue(<<>>)])

(***************************************************************************)
(* Terraform: planning a resource whose schema is LdapEntryResource.Schema *)
(***************************************************************************)
UnknownString == "(known after apply)"

\* The planned LdapEntryResourceModel: dn, attributes and attributes_wo_version
\* from the configuration, attributes through AttributesSetSemanticsModifier,
\* attributes_wo null (write-only), id from state (UseStateForUnknown).
PlanResource(cfg, st) ==
    [DN |-> cfg.DN,
     Attributes |-> PlanModifyMap(cfg.Attributes,
                                  IF st.exists THEN st.Attributes ELSE NullMap,
                                  cfg.Attributes),
     AttributesWO |-> NullMap,
     AttributesWOVer |-> cfg.AttributesWOVer,
     Id |-> IF st.exists /\ st.Id # NullString THEN st.Id ELSE UnknownString]

\* The resource as persisted by resp.State.Set(ctx, &model)
Persisted(model) ==
    [exists |-> TRUE, DN |-> model.DN, Attributes |-> model.Attributes,
     AttributesWO |-> NullMap, AttributesWOVer |-> model.AttributesWOVer,
     Id |-> model.Id]

\* Terraform calls Update only for a plan that differs from the prior state.
PlanDiffers(plan, st) ==
    \/ plan.Attributes # st.Attributes
    \/ plan.AttributesWOVer # st.AttributesWOVer
    \/ plan.Id # st.Id

NoRequest == [kind |-> "none"]

(***************************************************************************)
(* LdapEntryResource.Update                                                *)
(***************************************************************************)
\* Mutant of UpdateSavedState: the plan is saved although the modify call failed.
UpdateSavedState_Always(plan, state, ok) == Persisted([plan EXCEPT !.Id = plan.DN])

\* What Update leaves in state: the plan with id = dn, unless the modify call
\* failed, when it returns before resp.State.Set.
UpdateSavedState(plan, state, ok) ==
    IF ok THEN Persisted([plan EXCEPT !.Id = plan.DN]) ELSE state

\* The private state without the import_attributes key
NoPrivate == <<>>

\* The resource was imported and not read yet: state holds the dn alone.
ImportPending ==
    tfstate.exists /\ tfstate.Attributes.kind = "null" /\ tfstate.Id = NullString

\* The parent of the managed entry, and what the directory holds there
BaseDN == "dc=x"

ParentEntry == Entry([n \in {"objectclass"} |-> {"b"}])

\* The entry the directory holds at dn
EntryOf(dn) ==
    IF dn = TheDN THEN dir
    ELSE IF dn = BaseDN THEN ParentEntry
    ELSE NoEntry

\* The entry the requests for dn address exists on the server.
EntryAt(dn) == EntryOf(dn).exists

\* Update reaches ProcessUnicodePwd with a unicodePwd value to encode.
UpdateEncodes(plan, cfg, state) ==
    /\ TransmitsWO(plan, cfg, state)
    /\ EncodesUnicodePwd(unmarshalTerraformAttributes(cfg.AttributesWO,
                            unmarshalTerraformAttributes(plan.Attributes, NoAttrs)))

\* How a handler call can end once its request is built: "encoding" (the encoder
\* returned an error), "panic" (the call on a nil r.client dereferences nil),
\* "ok", "noSuchObject" or "other" (the result of the server or of the connection).
CallOutcomes(encodes, calls, succeeds, dn) ==
    (IF encodes THEN {"encoding"} ELSE {})
    \cup (IF ~calls THEN {"ok"}
          ELSE IF client = "nil" THEN {"panic"}
          ELSE {"other"}
               \cup (IF succeeds THEN {"ok"} ELSE {})
               \cup (IF ~EntryAt(dn) THEN {"noSuchObject"} ELSE {}))

\* Mutant of ModifyCalls: a failed Modify is sent again.
ModifyCalls_Retry(changes, out) ==
    IF changes = EmptyBag \/ out \in {"encoding", "panic"} THEN 0
    ELSE IF out = "ok" THEN 1 ELSE 2

\* The number of Modify requests Update sends: one if there are changes and the
\* handler gets as far as sending it.
ModifyCalls(changes, out) ==
    IF changes = EmptyBag \/ out \in {"encoding", "panic"} THEN 0 ELSE 1

Update ==
    /\ tfstate.exists
    /\ ~ImportPending
    /\ config.DN = tfstate.DN
    /\ LET plan == PlanResource(config, tfstate)
           attributes == UpdateAttributes(plan, config, tfstate)
           currentAttrs == unmarshalTerraformAttributes(tfstate.Attributes, NoAttrs)
           changes == UpdateChanges(plan, config, tfstate)
       IN /\ PlanDiffers(plan, tfstate)
          /\ \E out \in CallOutcomes(UpdateEncodes(plan, config, tfstate),
                                     changes # EmptyBag, EntryAt(plan.DN), plan.DN) :
                LET ok == out = "ok"
                    calls == ModifyCalls(changes, out)
                IN /\ dir' = IF calls > 0 /\ ok
                             THEN ApplyOps(ApplyOps(dir, ChangedOps(attributes, currentAttrs)),
                                           RemovedOps(attributes, currentAttrs))
                             ELSE dir
                   /\ tfstate' = UpdateSavedState(plan, tfstate, ok)
                   /\ last' = [op |-> "Update", ok |-> ok, sync |-> ok, prior |-> tfstate,
                               err |-> IF ok THEN "none" ELSE out, calls |-> calls,
                               req |-> IF calls > 0
                                       THEN [kind |-> "modify", dn |-> plan.DN,
                                             changes |-> changes]
                                       ELSE NoRequest]
    /\ UNCHANGED <<config, server, client, private, call>>

(***************************************************************************)
(* Inputs                                                                  *)
(***************************************************************************)
Values == {"a", "b"}

\* Highest attributes_wo_version a configuration uses.
MaxVer == 2

Versions == {NullInt64} \cup {Int64Value(n) : n \in 1..MaxVer}

\* The attribute names the configurations use
AttrNames == {"objectclass", "userPassword"}

\* types.Map values over the given choices per name (a name may be left out)
MapsOver(names, choice) ==
    UNION {{MapValue(f) : f \in {g \in [ks -> UNION {choice[k] : k \in ks}] :
                                    \A k \in ks : g[k] \in choice[k]}} :
           ks \in SUBSET names}

(***************************************************************************)
(* LdapEntryResource.Create                                                *)
(***************************************************************************)
\* Mutant of CreateAttributes: attributes without a value are sent too.
CreateAttributes_KeepEmpty(plan, cfg) ==
    LET fromPlan == unmarshalTerraformAttributes(plan.Attributes, NoAttrs)
    IN ProcessUnicodePwd(
          IF cfg.AttributesWO.kind # "null"
          THEN unmarshalTerraformAttributes(cfg.AttributesWO, fromPlan)
          ELSE fromPlan)

\* The attributes of the add request: the plan's attributes, overlaid with the
\* write-only attributes of the config, through ProcessUnicodePwd, without the
\* attributes that have no value.
CreateAttributes(plan, cfg) ==
    LET fromPlan == unmarshalTerraformAttributes(plan.Attributes, NoAttrs)
        attributes == ProcessUnicodePwd(
                        IF cfg.AttributesWO.kind # "null"
                        THEN unmarshalTerraformAttributes(cfg.AttributesWO, fromPlan)
                        ELSE fromPlan)
    IN [attr \in {k \in DOMAIN attributes : Len(attributes[k]) > 0} |-> attributes[attr]]

\* What Create leaves in state: the plan with id = dn, nothing if the add failed.
CreateSavedState(plan, state, ok) ==
    IF ok THEN Persisted([plan EXCEPT !.Id = plan.DN]) ELSE state

\* Create reaches ProcessUnicodePwd with a unicodePwd value to encode.
CreateEncodes(plan, cfg) ==
    LET fromPlan == unmarshalTerraformAttributes(plan.Attributes, NoAttrs)
    IN EncodesUnicodePwd(IF cfg.AttributesWO.kind # "null"
                         THEN unmarshalTerraformAttributes(cfg.AttributesWO, fromPlan)
                         ELSE fromPlan)

\* Mutant of AddCalls: the add is sent before the result of the encoder is looked at.
AddCalls_BeforeEncoding(out) == IF out = "panic" THEN 0 ELSE 1

\* The number of Add requests Create sends.
AddCalls(out) == IF out \in {"encoding", "panic"} THEN 0 ELSE 1

Create ==
    /\ ~tfstate.exists
    /\ LET plan == PlanResource(config, tfstate)
           attrs == CreateAttributes(plan, config)
       IN \E out \in CallOutcomes(CreateEncodes(plan, config), TRUE,
                                  ~dir.exists /\ plan.DN = TheDN, plan.DN) \ {"noSuchObject"} :
            LET ok == out = "ok"
            IN /\ dir' = IF ok THEN Entry(StoreAttrs(NoAttrs, attrs)) ELSE dir
               /\ tfstate' = CreateSavedState(plan, tfstate, ok)
               /\ private' = NoPrivate
               /\ last' = [op |-> "Create", ok |-> ok, sync |-> ok, prior |-> tfstate,
                           err |-> IF ok THEN "none" ELSE out, calls |-> AddCalls(out),
                           req |-> IF AddCalls(out) > 0
                                   THEN [kind |-> "add", dn |-> plan.DN, attrs |-> attrs]
                                   ELSE NoRequest]
    /\ UNCHANGED <<config, server, client, call>>

(***************************************************************************)
(* LdapEntryResource.Read                                                  *)
(***************************************************************************)
\* Mutant of AttributesToRequest: the names recorded by an import are not consulted.
AttributesToRequest_NoImport(state, priv) ==
    IF DOMAIN state.Attributes.elems # {} THEN DOMAIN state.Attributes.elems
    ELSE {"objectClass"}

\* attributesToRequest: the keys of state.Attributes; if there is none, the names
\* ImportState recorded in private state; if there is none either, objectClass.
AttributesToRequest(state, priv) ==
    IF DOMAIN state.Attributes.elems # {} THEN DOMAIN state.Attributes.elems
    ELSE IF priv # NoPrivate THEN Range(priv)
    ELSE {"objectClass"}

\* A successful apply, or a refresh after one, with nothing changed in between.
InSync == last.op \in {"Create", "Update", "Read"} /\ last.ok /\ last.sync

\* Mutant of ReadSavedState: a search that returns no entry leaves state as it
\* was.
ReadSavedState_KeepMissing(state, out, results) ==
    IF out = "ok"
    THEN [state EXCEPT !.Attributes = results, !.Id = state.DN]
    ELSE state

\* Mutant of ReadSavedState: id is left as it was.
ReadSavedState_KeepId(state, out, results) ==
    IF out = "ok"
    THEN [state EXCEPT !.Attributes = results]
    ELSE IF out = "empty" THEN [exists |-> FALSE]
    ELSE state

\* What Read leaves in state: the attributes of the first result and id = dn;
\* nothing (RemoveResource) if the search returned no entry; the prior state if
\* the search failed.
ReadSavedState(state, out, results) ==
    IF out = "ok"
    THEN [state EXCEPT !.Attributes = results, !.Id = state.DN]
    ELSE IF out = "empty" THEN [exists |-> FALSE]
    ELSE state

Read ==
    /\ tfstate.exists
    /\ LET requested == AttributesToRequest(tfstate, private)
           req == [kind |-> "search", dn |-> tfstate.DN, attrs |-> requested]
           outs == CallOutcomes(FALSE, TRUE, EntryAt(tfstate.DN), tfstate.DN)
                     \cup (IF client # "nil" /\ ~EntryAt(tfstate.DN) THEN {"empty"} ELSE {})
       IN \E out \in outs :
            \E answer \in IF out = "ok"
                          THEN SearchAnswers(dir, requested, server.echo)
                          ELSE {NoAttrs} :
               LET ok == out \in {"ok", "empty"}
               IN /\ tfstate' = ReadSavedState(tfstate, out,
                                               MarshalLdapResults(answer, requested))
                  /\ private' = IF out = "empty" THEN NoPrivate ELSE private
                  /\ last' = [op |-> "Read", ok |-> ok,
                              sync |-> IF out = "ok" THEN InSync ELSE FALSE,
                              err |-> IF ok THEN "none" ELSE out,
                              calls |-> IF out = "panic" THEN 0 ELSE 1,
                              req |-> IF out = "panic" THEN NoRequest ELSE req,
                              answer |-> answer]
    /\ UNCHANGED <<config, dir, server, client, call>>

(***************************************************************************)
(* LdapEntryResource.Delete                                                *)
(***************************************************************************)
\* Terraform drops the resource from state when Delete reports no error.
DeleteSavedState(state, ok) == IF ok THEN [exists |-> FALSE] ELSE state

DeleteEntry ==
    /\ tfstate.exists
    /\ ~ImportPending
    /\ \E out \in CallOutcomes(FALSE, TRUE, EntryAt(tfstate.DN), tfstate.DN) :
          LET ok == out = "ok"
          IN /\ dir' = IF ok THEN NoEntry ELSE dir
             /\ tfstate' = DeleteSavedState(tfstate, ok)
             /\ private' = IF ok THEN NoPrivate ELSE private
             /\ last' = [op |-> "Delete", ok |-> ok, sync |-> FALSE, prior |-> tfstate,
                         err |-> IF ok THEN "none" ELSE out,
                         calls |-> IF out = "panic" THEN 0 ELSE 1,
                         req |-> IF out = "panic" THEN NoRequest
                                 ELSE [kind |-> "del", dn |-> tfstate.DN]]
    /\ UNCHANGED <<config, server, client, call>>

(***************************************************************************)
(* LdapEntryResource.ImportState                                           *)
(***************************************************************************)
\* An import ID that is not JSON
RawID(text) == [form |-> "raw", text |-> text]

\* An import ID that is a JSON object; a member it lacks is left out of fields
JsonID(fields) == [form |-> "json", fields |-> fields]

\* json.Unmarshal([]byte(req.ID), &importSpec): importSpec, with the zero value
\* for a member the object lacks; an error for an ID that is not JSON.
UnmarshalImportSpec(id) ==
    IF id.form = "json"
    THEN [err |-> FALSE,
          DN |-> IF "dn" \in DOMAIN id.fields THEN id.fields.dn ELSE "",
          Attributes |-> IF "attributes" \in DOMAIN id.fields
                         THEN id.fields.attributes ELSE <<>>]
    ELSE [err |-> TRUE, DN |-> "", Attributes |-> <<>>]

\* dn and attributesToImport of ImportState
ImportSpec(id) ==
    LET importSpec == UnmarshalImportSpec(id)
    IN IF ~importSpec.err
       THEN [dn |-> importSpec.DN, attributesToImport |-> importSpec.Attributes]
       ELSE [dn |-> id.text, attributesToImport |-> <<"objectClass">>]

\* The state ImportState leaves: dn alone set
ImportedState(dn) ==
    [exists |-> TRUE, DN |-> dn, Attributes |-> NullMap, AttributesWO |-> NullMap,
     AttributesWOVer |-> NullInt64, Id |-> NullString]

\* The IDs given to terraform import
ImportIDs ==
    {RawID(TheDN),
     JsonID([dn |-> TheDN]),
     JsonID([attributes |-> <<"userPassword">>]),
     JsonID([dn |-> TheDN, attributes |-> <<"userPassword">>]),
     JsonID([dn |-> TheDN, attributes |-> <<"objectclass", "userPassword">>])}

ImportState ==
    /\ ~tfstate.exists
    /\ \E id \in ImportIDs :
          LET spec == ImportSpec(id)
          IN /\ tfstate' = ImportedState(spec.dn)
             /\ private' = spec.attributesToImport
             /\ last' = [op |-> "ImportState", ok |-> TRUE, sync |-> FALSE,
                         prior |-> tfstate, err |-> "none", calls |-> 0,
                         req |-> NoRequest, id |-> id]
    /\ UNCHANGED <<config, dir, server, client, call>>

(***************************************************************************)
(* The environment: the user edits the configuration, another actor writes *)
(* to the entry.                                                           *)
(***************************************************************************)
\* Duplicate-free lists: a directory attribute holds a set of values.
SetLists == {l \in SeqsUpTo(Values, Cardinality(Values)) : Cardinality(Range(l)) = Len(l)}

LifeChoice(name) ==
    IF name = "userPassword" THEN {ListValue(<<"a">>)}
    ELSE {NullList} \cup {ListValue(l) : l \in SetLists}

\* attributes_wo of the configurations: not set, or the password
LifeWO == {NullMap, MapValue([k \in {"userPassword"} |-> ListValue(<<"p">>)])}

\* attributes_wo_version of the configurations: not set, or 1
LifeVersions == {NullInt64, Int64Value(1)}

LifeConfigs ==
    {[DN |-> TheDN, Attributes |-> attrs, AttributesWO |-> wo,
      AttributesWOVer |-> ver, Id |-> NullString] :
        attrs \in MapsOver(AttrNames, [n \in AttrNames |-> LifeChoice(n)]),
        wo \in LifeWO, ver \in LifeVersions}

\* config.Attributes with one attribute set to a list or to null
WithAttribute(cfg, name, value) ==
    [cfg EXCEPT !.Attributes =
        MapValue([k \in DOMAIN cfg.Attributes.elems \cup {name} |->
                    IF k = name THEN value ELSE cfg.Attributes.elems[k]])]

\* config.Attributes with one attribute taken out
WithoutAttribute(cfg, name) ==
    [cfg EXCEPT !.Attributes =
        MapValue([k \in DOMAIN cfg.Attributes.elems \ {name} |-> cfg.Attributes.elems[k]])]

\* One edit of the resource block; edits that follow each other without an apply
\* in between add up to any change of the configuration.
SetConfig ==
    /\ \/ \E name \in AttrNames : \E value \in LifeChoice(name) :
             config' = WithAttribute(config, name, value)
       \/ \E name \in DOMAIN config.Attributes.elems :
             config' = WithoutAttribute(config, name)
       \/ \E wo \in LifeWO : config' = [config EXCEPT !.AttributesWO = wo]
       \/ \E ver \in LifeVersions : config' = [config EXCEPT !.AttributesWOVer = ver]
    /\ config' # config
    /\ last' = [op |-> "none"]
    /\ UNCHANGED <<tfstate, dir, server, client, private, call>>

External ==
    /\ dir.exists
    /\ \/ \E V \in SUBSET Values :
             /\ dir' = Entry(StoreAttrs([n \in DOMAIN dir.attrs \ {"objectclass"} |-> dir.attrs[n]],
                                        [k \in {"objectclass"} |-> CHOOSE l \in SetLists : Range(l) = V]))
             /\ dir' # dir
       \/ dir' = NoEntry
    /\ last' = [op |-> "none"]
    /\ UNCHANGED <<config, tfstate, server, client, private, call>>

Init ==
    /\ config \in LifeConfigs
    /\ tfstate = [exists |-> FALSE]
    /\ dir = NoEntry
    /\ server \in {[echo |-> e] : e \in BOOLEAN}
    /\ client = "conn"
    /\ private = NoPrivate
    /\ last = [op |-> "none"]
    /\ call = [fn |-> "none"]

Next == SetConfig \/ Create \/ Read \/ Update \/ External

Spec == Init /\ [][Next]_vars

\* The lifecycle with terraform import and terraform destroy
NextImport == Next \/ DeleteEntry \/ ImportState

SpecImport == Init /\ [][NextImport]_vars

(***************************************************************************)
(* SpecAdopt: terraform import of an entry another actor created, followed *)
(* by the refreshes and applies of the adopted resource.                   *)
(***************************************************************************)
\* A dn under a parent the directory does not have: no entry is there, and an
\* add for it is refused.
OtherDN == "uid=u,dc=none"

\* The resource blocks written for the entry to adopt, under its dn or under
\* another one (a changed dn: Terraform replaces the resource)
AdoptConfigs ==
    {[c EXCEPT !.DN = dn] :
        c \in {l \in LifeConfigs :
                  /\ l.AttributesWO = NullMap
                  /\ l.AttributesWOVer = NullInt64
                  /\ \A k \in DOMAIN l.Attributes.elems :
                        l.Attributes.elems[k] \in {NullList, ListValue(<<"a">>)}},
        dn \in {TheDN, OtherDN}}

InitAdopt ==
    /\ config \in AdoptConfigs
    /\ tfstate = [exists |-> FALSE]
    /\ dir \in {NoEntry,
                Entry([n \in {"objectclass"} |-> {"a", "b"}]),
                Entry([n \in AttrNames |-> {"a"}])}
    /\ server \in {[echo |-> e] : e \in BOOLEAN}
    /\ client = "conn"
    /\ private = NoPrivate
    /\ last = [op |-> "none"]
    /\ call = [fn |-> "none"]

NextAdopt == ImportState \/ Read \/ Update \/ DeleteEntry \/ Create

SpecAdopt == InitAdopt /\ [][NextAdopt]_vars

(***************************************************************************)
(* SpecUpdate: Update on every bounded configuration and prior state.      *)
(***************************************************************************)
\* The lists an attribute may be given: up to MaxLen values, duplicates included.
BroadLists == SeqsUpTo(Values, MaxLen)

BroadChoice(name) ==
    IF name = "userPassword"
    THEN {NullList, ListValue(<<"a">>)}
    ELSE {NullList} \cup {ListValue(l) : l \in BroadLists}

\* attributes_wo: not set, or the password, or a name that attributes also names
WOChoices ==
    {NullMap,
     MapValue([k \in {"userPassword"} |-> ListValue(<<"p">>)]),
     MapValue([k \in {"userPassword"} |-> ListValue(<<>>)])}

InitUpdate ==
    /\ call = [fn |-> "none"]
    /\ server = [echo |-> TRUE]
    /\ client = "conn"
    /\ private = NoPrivate
    /\ last = [op |-> "none"]
    /\ \E attrs \in MapsOver(AttrNames, [n \in AttrNames |-> BroadChoice(n)]),
          wo \in WOChoices, ver \in Versions :
            config = [DN |-> TheDN, Attributes |-> attrs, AttributesWO |-> wo,
                      AttributesWOVer |-> ver, Id |-> NullString]
    /\ \E attrs \in MapsOver(AttrNames, [n \in AttrNames |-> BroadChoice(n)]),
          ver \in LifeVersions :
            /\ tfstate = Persisted([DN |-> TheDN, Attributes |-> attrs,
                                    AttributesWOVer |-> ver, Id |-> TheDN])
            /\ dir = Entry(StoreAttrs(NoAttrs,
                              unmarshalTerraformAttributes(attrs, NoAttrs)))

SpecUpdate == InitUpdate /\ [][Update]_vars

(***************************************************************************)
(* LdapSearchDataSource.Read, over the directory of two entries: the       *)
(* parent and, below it, the managed entry. The filter is taken to match   *)
(* every entry, as the presence filter on objectClass does.                *)
(***************************************************************************)
NullScope == [kind |-> "null", value |-> ""]
ScopeValue(s) == [kind |-> "known", value |-> s]

\* Mutant of ConvertHumanReadableLDAPScope: a scope it does not know is taken
\* as "sub".
ConvertHumanReadableLDAPScope_DefaultSub(scope) ==
    CASE scope = "base" -> [ldapScope |-> 0, err |-> FALSE]
      [] scope = "one" -> [ldapScope |-> 1, err |-> FALSE]
      [] OTHER -> [ldapScope |-> 2, err |-> FALSE]

\* ConvertHumanReadableLDAPScope: ldap.ScopeBaseObject (0), ScopeSingleLevel (1),
\* ScopeWholeSubtree (2), or -1 and an error
ConvertHumanReadableLDAPScope(scope) ==
    CASE scope = "base" -> [ldapScope |-> 0, err |-> FALSE]
      [] scope = "one" -> [ldapScope |-> 1, err |-> FALSE]
      [] scope = "sub" -> [ldapScope |-> 2, err |-> FALSE]
      [] OTHER -> [ldapScope |-> -1, err |-> TRUE]

\* The entries of the directory, in the order the server returns them
DirectoryOrder == <<BaseDN, TheDN>>

\* dn is in the scope of a search from baseDN
InScope(dn, baseDN, ldapScope) ==
    CASE ldapScope = 0 -> dn = baseDN
      [] ldapScope = 1 -> dn = TheDN /\ baseDN = BaseDN
      [] ldapScope = 2 -> dn = baseDN \/ (dn = TheDN /\ baseDN = BaseDN)
      [] OTHER -> FALSE

\* conn.Search: the DNs of sr.Entries
SearchedDNs(baseDN, ldapScope) ==
    SelectSeq(DirectoryOrder, LAMBDA dn : EntryAt(dn) /\ InScope(dn, baseDN, ldapScope))

\* conn.Search: the attributes of one entry of sr.Entries; with no attribute
\* requested the server returns all of them, under its own spelling.
EntryAnswers(entry, attributes, echo) ==
    IF attributes = <<>>
    THEN SearchAnswers(entry, {Canonical(n) : n \in DOMAIN entry.attrs}, echo)
    ELSE SearchAnswers(entry, Range(attributes), echo)

\* The data source before its first Read
NoData == [exists |-> FALSE]

DataSourceRead ==
    /\ LET data == call.data
           scope == IF data.Scope.kind = "null" THEN "sub" ELSE data.Scope.value
           attributes == IF data.RequestedAttributes.kind = "null"
                         THEN <<>> ELSE data.RequestedAttributes.elems
           converted == ConvertHumanReadableLDAPScope(scope)
           dns == SearchedDNs(data.BaseDN, converted.ldapScope)
           outs == IF converted.err THEN {"scope"}
                   ELSE CallOutcomes(FALSE, TRUE, EntryAt(data.BaseDN), data.BaseDN)
       IN \E out \in outs :
            \E answers \in IF out = "ok"
                           THEN {a \in [1..Len(dns) ->
                                          UNION {EntryAnswers(EntryOf(dns[i]), attributes,
                                                              server.echo) : i \in 1..Len(dns)}] :
                                   \A i \in 1..Len(dns) :
                                      a[i] \in EntryAnswers(EntryOf(dns[i]), attributes,
                                                            server.echo)}
                           ELSE {<<>>} :
               call' = [fn |-> "DataSourceRead", data |-> data,
                        err |-> IF out = "ok" THEN "none" ELSE out,
                        calls |-> IF out \in {"scope", "panic"} THEN 0 ELSE 1,
                        req |-> IF out \in {"scope", "panic"} THEN NoRequest
                                ELSE [kind |-> "search", dn |-> data.BaseDN,
                                      scope |-> converted.ldapScope, attrs |-> attributes],
                        answers |-> answers,
                        state |-> IF out = "ok"
                                  THEN [exists |-> TRUE,
                                        Results |-> [i \in 1..Len(dns) |->
                                            [DN |-> dns[i],
                                             Attributes |-> MarshalLdapResults(answers[i],
                                                                Range(attributes))]],
                                        Scope |-> ScopeValue(scope)]
                                  ELSE call.state]
    /\ UNCHANGED <<config, tfstate, dir, server, client, private, last>>

(***************************************************************************)
(* SpecSearch: the searches of the provider, Read of the resource and Read *)
(* of the data source, on bounded directories and requests.                *)
(***************************************************************************)
\* The configurations of the data source
SearchConfigs ==
    {[BaseDN |-> b, Scope |-> sc, RequestedAttributes |-> ra] :
        b \in {BaseDN, TheDN, "dc=none"},
        sc \in {NullScope} \cup {ScopeValue(v) : v \in {"base", "one", "sub", "children"}},
        ra \in {NullList, ListValue(<<>>), ListValue(<<"objectclass">>),
                ListValue(<<"mail">>), ListValue(<<"objectClass", "mail">>)}}

\* The attributes the state of the resource holds before its Read
SearchStateChoice ==
    [n \in {"objectclass", "mail"} |-> {NullList, ListValue(<<"a">>)}]

InitSearch ==
    /\ config \in {c \in LifeConfigs : c.Attributes = MapValue(NoAttrs)
                                       /\ c.AttributesWO = NullMap
                                       /\ c.AttributesWOVer = NullInt64}
    /\ server \in {[echo |-> e] : e \in BOOLEAN}
    /\ client \in {"conn", "nil"}
    /\ private = NoPrivate
    /\ last = [op |-> "none"]
    /\ dir \in {NoEntry,
                Entry([n \in {"objectclass"} |-> {"a"}]),
                Entry([n \in {"objectclass", "mail"} |-> {"a", "b"}])}
    /\ \E attrs \in MapsOver({"objectclass", "mail"}, SearchStateChoice) :
          tfstate = Persisted([DN |-> TheDN, Attributes |-> attrs,
                               AttributesWOVer |-> NullInt64, Id |-> TheDN])
    /\ \E data \in SearchConfigs : call = [fn |-> "none", data |-> data, state |-> NoData]

NextSearch == Read \/ DataSourceRead

SpecSearch == InitSearch /\ [][NextSearch]_vars

(***************************************************************************)
(* SpecOps: each handler on bounded requests, with or without a connection *)
(* in r.client, with Active Directory's unicodePwd among the attributes.   *)
(***************************************************************************)
OpsNames == {"objectclass", "unicodePwd"}

\* attributes of the configurations
OpsChoice ==
    [n \in OpsNames |->
        IF n = "unicodePwd" THEN {NullList, ListValue(<<"a">>)}
        ELSE {NullList, ListValue(<<>>), ListValue(<<"a">>), ListValue(<<"a", "b">>)}]

\* attributes_wo of the configurations: not set, or lists (null and empty ones
\* included) for any of the names
OpsWO ==
    {NullMap} \cup
    MapsOver(OpsNames, [n \in OpsNames |-> {NullList, ListValue(<<>>), ListValue(<<"p">>)}])

\* attributes of the prior state
OpsStateChoice == [n \in OpsNames |-> {ListValue(<<"a">>)}]

InitOps ==
    /\ call = [fn |-> "none"]
    /\ server = [echo |-> TRUE]
    /\ client \in {"conn", "nil"}
    /\ private = NoPrivate
    /\ last = [op |-> "none"]
    /\ \E attrs \in MapsOver(OpsNames, OpsChoice), wo \in OpsWO, ver \in LifeVersions :
            config = [DN |-> TheDN, Attributes |-> attrs, AttributesWO |-> wo,
                      AttributesWOVer |-> ver, Id |-> NullString]
    /\ \/ /\ tfstate = [exists |-> FALSE]
          /\ dir \in {NoEntry, Entry(StoreAttrs(NoAttrs, [k \in {"objectclass"} |-> <<"a">>]))}
       \/ \E attrs \in MapsOver(OpsNames, OpsStateChoice) :
            /\ tfstate = Persisted([DN |-> TheDN, Attributes |-> attrs,
                                    AttributesWOVer |-> NullInt64, Id |-> TheDN])
            /\ dir \in {NoEntry,
                        Entry(StoreAttrs(NoAttrs, unmarshalTerraformAttributes(attrs, NoAttrs)))}

NextOps == Create \/ Read \/ Update \/ DeleteEntry

SpecOps == InitOps /\ [][NextOps]_vars

(***************************************************************************)
(* The latest Update, for the properties of its modify request             *)
(***************************************************************************)
IsUpdate == last.op = "Update"

\* The plan Terraform handed to the latest Create or Update
LastPlan == PlanResource(config, last.prior)

\* modifyReq.Changes of the latest Update (empty when no request was issued)
LastChanges == IF last.req.kind = "modify" THEN last.req.changes ELSE EmptyBag

OpsOn(name) == {o \in BagToSet(LastChanges) : o.name = name}

\* Whether the latest Update merged the write-only attributes into its request
Transmitted == TransmitsWO(LastPlan, config, last.prior)

\* The names the latest Update took from attributes_wo
SentWO == IF Transmitted THEN DOMAIN config.AttributesWO.elems ELSE {}

\* The value lists the latest Update wants on the entry: the planned attributes,
\* overlaid by the write-only attributes it transmits
Desired == UpdateAttributes(LastPlan, config, last.prior)

\* The value lists of the state the latest Update started from
Observed == unmarshalTerraformAttributes(last.prior.Attributes, NoAttrs)

\* Number of occurrences of v in s
Count(s, v) == Cardinality({i \in 1..Len(s) : s[i] = v})

\* Multiset equality, stated without sorting
SameMultiset(a, b) ==
    \A v \in Range(a) \cup Range(b) : Count(a, v) = Count(b, v)

\* C1: in every Update, an attribute whose configured value is null and which
\* state holds with at least one value gets neither a Replace nor a Delete,
\* whatever else changes in the cycle.
C1_UnmanagedNeverWritten ==
    IsUpdate =>
        \A k \in DOMAIN config.Attributes.elems :
            ( /\ config.Attributes.elems[k].kind = "null"
              /\ k \notin SentWO
              /\ k \in DOMAIN Observed
              /\ Observed[k] # <<>> )
            => OpsOn(k) = {}

\* C2: Update emits exactly one Replace(name, desired list) for exactly the names
\* whose desired list is non-empty and that state lacks or holds with a list that
\* is not the same multiset; it emits no other Replace.
C2_ReplaceExactlyChanged ==
    IsUpdate =>
        /\ \A k \in DOMAIN Desired :
              ( /\ Desired[k] # <<>>
                /\ (k \notin DOMAIN Observed \/ ~SameMultiset(Observed[k], Desired[k])) )
              => /\ CopiesIn(Replace(k, Desired[k]), LastChanges) = 1
                 /\ OpsOn(k) = {Replace(k, Desired[k])}
        /\ \A o \in BagToSet(LastChanges) :
              o.op = "Replace" =>
                 /\ o.name \in DOMAIN Desired
                 /\ o.vals = Desired[o.name]
                 /\ o.vals # <<>>
                 /\ (o.name \notin DOMAIN Observed
                       \/ ~SameMultiset(Observed[o.name], o.vals))

\* C2 witness: state objectclass=[a], desired [a,b]: the request is exactly that Replace.
C2_Witness ==
    /\ IsUpdate
    /\ "objectclass" \in DOMAIN Observed /\ Observed["objectclass"] = <<"a">>
    /\ "objectclass" \in DOMAIN Desired /\ Desired["objectclass"] = <<"a", "b">>
    /\ LastChanges = SetToBag({Replace("objectclass", <<"a", "b">>)})

\* C3: an attribute configured as the empty list that state lacks or holds with
\* values gets exactly one Delete and no Replace; no Replace ever carries an
\* empty list; after a successful apply state holds the empty list for it and
\* the entry holds no value for it.
C3_EmptyListDeletes ==
    IsUpdate =>
        /\ \A k \in DOMAIN config.Attributes.elems :
              ( /\ config.Attributes.elems[k] = ListValue(<<>>)
                /\ k \notin SentWO
                /\ (k \notin DOMAIN Observed \/ Observed[k] # <<>>) )
              => /\ CopiesIn(Delete(k), LastChanges) = 1
                 /\ OpsOn(k) = {Delete(k)}
                 /\ last.ok => /\ k \in DOMAIN tfstate.Attributes.elems
                               /\ tfstate.Attributes.elems[k] = ListValue(<<>>)
                               /\ Fold(k) \notin DOMAIN dir.attrs
        /\ \A o \in BagToSet(LastChanges) : o.op = "Replace" => o.vals # <<>>

\* C3 witness: state held values for an attribute configured as [], the Update
\* succeeded with a Delete for it.
C3_Witness ==
    /\ IsUpdate /\ last.ok
    /\ "objectclass" \in DOMAIN config.Attributes.elems
    /\ config.Attributes.elems["objectclass"] = ListValue(<<>>)
    /\ "objectclass" \in DOMAIN Observed /\ Observed["objectclass"] = <<"b">>
    /\ BagIn(Delete("objectclass"), LastChanges)
    /\ tfstate.Attributes.elems["objectclass"] = ListValue(<<>>)

\* C4: an attribute that state holds and that the desired attributes of the cycle
\* leave out gets exactly one Delete, and after a successful apply state has no
\* key for it.
C4_OmittedDeleted ==
    IsUpdate =>
        \A k \in DOMAIN Observed :
            k \notin DOMAIN Desired
            => /\ CopiesIn(Delete(k), LastChanges) = 1
               /\ OpsOn(k) = {Delete(k)}
               /\ last.ok => k \notin DOMAIN tfstate.Attributes.elems

\* C4 witness: state objectclass=[a], the configuration has no attribute: the
\* request is exactly the Delete.
C4_Witness ==
    /\ IsUpdate /\ last.ok
    /\ DOMAIN Observed = {"objectclass"} /\ Observed["objectclass"] = <<"a">>
    /\ DOMAIN config.Attributes.elems = {}
    /\ LastChanges = SetToBag({Delete("objectclass")})
    /\ DOMAIN tfstate.Attributes.elems = {}

\* C5: an Update whose planned attributes are the attributes of state and that
\* transmits no write-only attribute builds no operation and issues no request.
C5_DiffOfEqualIsEmpty ==
    (IsUpdate /\ LastPlan.Attributes = last.prior.Attributes /\ ~Transmitted)
        => /\ LastChanges = EmptyBag
           /\ last.req = NoRequest

\* C5 witness: such an Update on a state with a duplicated value.
C5_Witness ==
    /\ IsUpdate /\ ~Transmitted
    /\ LastPlan.Attributes = last.prior.Attributes
    /\ "objectclass" \in DOMAIN Observed /\ Observed["objectclass"] = <<"a", "a">>
    /\ last.req = NoRequest

\* The names the configuration gives in attributes_wo and not in attributes
WOOnly == DOMAIN config.AttributesWO.elems \ DOMAIN config.Attributes.elems

\* Update merged attributes_wo into its request: every write-only name is written
\* with its configured (encoded) list, unless state already holds that list.
WOMerged ==
    \A k \in DOMAIN config.AttributesWO.elems :
        LET want == ProcessUnicodePwd(
                        unmarshalTerraformAttributes(config.AttributesWO, NoAttrs))[k]
        IN \/ k \in DOMAIN Observed /\ SameMultiset(Observed[k], want)
           \/ OpsOn(k) = {IF want = <<>> THEN Delete(k) ELSE Replace(k, want)}

\* C9 as stated: the write-only attributes are merged exactly when the planned
\* version differs from the version in state (and attributes_wo is set); with
\* equal versions no operation is emitted for a name given only in attributes_wo.
C9_GateAsStated ==
    IsUpdate =>
        /\ (LastPlan.AttributesWOVer # last.prior.AttributesWOVer
              /\ config.AttributesWO.kind # "null") => WOMerged
        /\ LastPlan.AttributesWOVer = last.prior.AttributesWOVer
              => \A k \in WOOnly : OpsOn(k) = {}

\* C9 amended: as stated, but with equal versions the names given only in
\* attributes_wo that get no operation are those state does not hold; one that
\* state holds is deleted like any attribute dropped from attributes.
C9_Gate ==
    IsUpdate =>
        /\ (LastPlan.AttributesWOVer # last.prior.AttributesWOVer
              /\ config.AttributesWO.kind # "null") => WOMerged
        /\ LastPlan.AttributesWOVer = last.prior.AttributesWOVer
              => \A k \in WOOnly :
                    /\ k \notin DOMAIN Observed => OpsOn(k) = {}
                    /\ k \in DOMAIN Observed => OpsOn(k) = {Delete(k)}

\* C9 witness: equal versions, a write-only password state does not hold, another
\* attribute changed: the request has operations, none for the password.
C9_Witness ==
    /\ IsUpdate
    /\ LastPlan.AttributesWOVer = last.prior.AttributesWOVer
    /\ "userPassword" \in WOOnly
    /\ "userPassword" \notin DOMAIN Observed
    /\ LastChanges # EmptyBag
    /\ OpsOn("userPassword") = {}

\* C6: after a successful Create or Update and a refresh, with no change of the
\* entry or of the configuration in between, the plan is empty and the diff of
\* Update has no operation.
C6_ConvergedAfterApplyAndRefresh ==
    (last.op = "Read" /\ last.ok /\ last.sync) =>
        LET plan == PlanResource(config, tfstate)
        IN /\ ~PlanDiffers(plan, tfstate)
           /\ UpdateChanges(plan, config, tfstate) = EmptyBag

\* C10: a Create or Update whose add or modify call failed leaves the persisted
\* state as it was, so the next plan of the same configuration asks for the
\* write-only attributes again if the failed call carried them.
C10_FailureKeepsState ==
    (last.op \in {"Create", "Update"} /\ ~last.ok) =>
        /\ tfstate = last.prior
        /\ (IsUpdate /\ Transmitted) =>
              TransmitsWO(PlanResource(config, tfstate), config, tfstate)

\* C10 witness: a failed Update that carried the write-only attributes.
C10_Witness ==
    /\ IsUpdate /\ ~last.ok /\ Transmitted
    /\ last.req.kind = "modify"
    /\ tfstate = last.prior
    /\ tfstate.AttributesWOVer # config.AttributesWOVer

IdleCall == [fn |-> "none"]

(***************************************************************************)
(* SpecEq: stringSlicesEqual applied to every pair of bounded slices.      *)
(***************************************************************************)
IdleLifecycle ==
    /\ config = [DN |-> "", Attributes |-> NullMap, AttributesWO |-> NullMap,
                 AttributesWOVer |-> NullInt64, Id |-> ""]
    /\ tfstate = [exists |-> FALSE]
    /\ dir = [exists |-> FALSE]
    /\ server = [echo |-> TRUE]
    /\ client = "conn"
    /\ private = NoPrivate
    /\ last = [op |-> "none"]

InitEq ==
    /\ IdleLifecycle
    /\ \E a \in SeqsUpTo(EqValues, MaxLen), b \in SeqsUpTo(EqValues, MaxLen) :
        call = [fn |-> "stringSlicesEqual", a |-> a, b |-> b, done |-> FALSE, res |-> FALSE]

CallStringSlicesEqual ==
    /\ call.fn = "stringSlicesEqual"
    /\ ~call.done
    /\ call' = [call EXCEPT !.done = TRUE, !.res = stringSlicesEqual(call.a, call.b)]
    /\ UNCHANGED <<config, tfstate, dir, server, client, private, last>>

NextEq == CallStringSlicesEqual

SpecEq == InitEq /\ [][NextEq]_vars

(***************************************************************************)
(* SpecPlan: PlanModifyMap applied to every bounded config and state map.  *)
(***************************************************************************)
PlanNames == {"member", "mail"}

\* A list of the configuration: null, not yet known, or up to MaxLen values
PlanConfigChoice(name) == {NullList, UnknownList} \cup {ListValue(l) : l \in BroadLists}

\* A list of state: null or up to MaxLen values
PlanStateChoice(name) == {NullList} \cup {ListValue(l) : l \in BroadLists}

InitPlan ==
    /\ IdleLifecycle
    /\ \E c \in {NullMap, UnknownMap}
                   \cup MapsOver(PlanNames, [n \in PlanNames |-> PlanConfigChoice(n)]),
          s \in {NullMap, UnknownMap}
                   \cup MapsOver(PlanNames, [n \in PlanNames |-> PlanStateChoice(n)]) :
        call = [fn |-> "PlanModifyMap", ConfigValue |-> c, StateValue |-> s,
                done |-> FALSE, PlanValue |-> c]

\* Terraform proposes the config value as the plan; the modifier may replace it.
CallPlanModifyMap ==
    /\ call.fn = "PlanModifyMap"
    /\ ~call.done
    /\ call' = [call EXCEPT !.done = TRUE,
                    !.PlanValue = PlanModifyMap(call.ConfigValue, call.StateValue,
                                                call.PlanValue)]
    /\ UNCHANGED <<config, tfstate, dir, server, client, private, last>>

NextPlan == CallPlanModifyMap

SpecPlan == InitPlan /\ [][NextPlan]_vars

\* Config and state are known maps and every non-null config list exists in
\* state with the same multiset of values
PlanEligible(c, s) ==
    /\ c.kind = "known" /\ s.kind = "known"
    /\ \A k \in DOMAIN c.elems :
          c.elems[k].kind # "null" =>
             /\ c.elems[k].kind = "known"
             /\ k \in DOMAIN s.elems
             /\ SameMultiset(c.elems[k].elems, s.elems[k].elems)

\* C8: when config and state are known maps and every non-null config attribute
\* exists in state with a set-equal list, the planned map has keys of the config
\* only (all of them but the null ones state lacks), each carrying the list of
\* state in state's order; so a config differing from state only in value order
\* plans no change, and one omitting a state attribute still plans a change. In
\* every other case the planned value is the config value.
C8_PlanModifyMap ==
    (call.fn = "PlanModifyMap" /\ call.done) =>
        LET c == call.ConfigValue
            s == call.StateValue
            p == call.PlanValue
        IN IF PlanEligible(c, s)
           THEN /\ p.kind = "known"
                /\ DOMAIN p.elems = DOMAIN c.elems \cap DOMAIN s.elems
                /\ \A k \in DOMAIN p.elems : p.elems[k] = s.elems[k]
                /\ DOMAIN c.elems = DOMAIN s.elems => p = s
                /\ (DOMAIN s.elems \ DOMAIN c.elems # {}) => p # s
           ELSE p = c

\* C8 witness: config and state differ in the order of member only, and state
\* holds a mail the config omits: the plan is member in state's order, without mail.
C8_Witness ==
    /\ call.fn = "PlanModifyMap" /\ call.done
    /\ call.ConfigValue = MapValue([k \in {"member"} |-> ListValue(<<"a", "b">>)])
    /\ call.StateValue = MapValue([k \in {"member", "mail"} |->
                             IF k = "member" THEN ListValue(<<"b", "a">>)
                             ELSE ListValue(<<"a">>)])
    /\ call.PlanValue = MapValue([k \in {"member"} |-> ListValue(<<"b", "a">>)])

\* C7: stringSlicesEqual(a, b) is true exactly when a and b hold the same multiset
\* of strings: order ignored, duplicates counted, case-sensitive, empty = empty.
C7_MultisetEquality ==
    (call.fn = "stringSlicesEqual" /\ call.done) =>
        (call.res <=> SameMultiset(call.a, call.b))

\* C7 witness: two slices holding the same values in different order, reported equal.
C7_Witness ==
    /\ call.fn = "stringSlicesEqual" /\ call.done
    /\ call.a = <<"a", "b">> /\ call.b = <<"b", "a">>
    /\ call.res

\* C11: the attributes_wo_version in state changes in an Update only if that
\* Update transmitted the write-only payload and its call succeeded; an Update
\* that does not transmit it leaves the version in state as it was.
C11_VersionOnlyWithTransmission ==
    ( /\ IsUpdate
      /\ tfstate.AttributesWOVer # last.prior.AttributesWOVer )
    => (last.ok /\ Transmitted)

\* The values the configurations give in attributes_wo and nowhere else
WriteOnlyValues ==
    UNION {UNION {Range(wo.elems[k].elems) : k \in DOMAIN wo.elems} : wo \in LifeWO}

\* The values state holds, in any attribute
PersistedValues ==
    IF tfstate.exists
    THEN UNION {Range(tfstate.Attributes.elems[k].elems) : k \in DOMAIN tfstate.Attributes.elems}
    ELSE {}

\* C12: after every Create, Read, Update and ImportState, state holds no
\* attributes_wo and no value that was given in attributes_wo alone, so that
\* two runs differing only in the attributes_wo values persist the same state.
C12_WriteOnlyNeverPersisted ==
    /\ tfstate.exists => tfstate.AttributesWO = NullMap
    /\ PersistedValues \cap WriteOnlyValues = {}

(***************************************************************************)
(* The latest Create                                                       *)
(***************************************************************************)
IsCreate == last.op = "Create"

\* The latest call got as far as its request to the directory: the encoder
\* reported no error and r.client holds a connection.
ReachedClient == last.err \notin {"encoding", "panic"}

\* The names of the planned attributes and of attributes_wo that have a value
PlannedWithValue ==
    {k \in DOMAIN LastPlan.Attributes.elems : LastPlan.Attributes.elems[k].elems # <<>>}

WriteOnlyWithValue ==
    {k \in DOMAIN config.AttributesWO.elems : config.AttributesWO.elems[k].elems # <<>>}

IsRead == last.op = "Read"

\* C14: every search Read sends requests exactly the keys of the attributes map
\* of the state it starts from, keys holding a null list included; if the map has
\* no key, exactly the names recorded by the preceding import; if there is none
\* either, exactly objectClass.
C14_ReadRequests ==
    [][ (last'.op = "Read" /\ last'.req # NoRequest) =>
            LET keys == DOMAIN tfstate.Attributes.elems
            IN /\ keys # {} => last'.req.attrs = keys
               /\ (keys = {} /\ private # NoPrivate) =>
                     last'.req.attrs = {private[i] : i \in 1..Len(private)}
               /\ (keys = {} /\ private = NoPrivate) =>
                     last'.req.attrs = {"objectClass"} ]_vars

\* C14 witness: the Read that follows an import of userPassword has searched for
\* userPassword alone, the state still holding no attribute.
C14_Witness ==
    /\ IsRead
    /\ ImportPending
    /\ private = <<"userPassword">>
    /\ last.req # NoRequest
    /\ last.req.attrs = {"userPassword"}

(***************************************************************************)
(* The latest search of the data source                                    *)
(***************************************************************************)
IsSearch == call.fn = "DataSourceRead"

\* attrs holds name with a list that is not null, and with the empty list if
\* the answer of the server lacks the name
FilledIn(attrs, name, answer) ==
    /\ name \in DOMAIN attrs.elems
    /\ attrs.elems[name].kind = "known"
    /\ name \notin DOMAIN answer => attrs.elems[name].elems = <<>>

\* C15: in every entry a search returns, to Read of the resource and to the
\* ldap_search data source alike, every requested name the response lacks
\* appears with an empty list; it is never missing and never null.
C15_RequestedNeverMissing ==
    /\ (IsRead /\ last.err = "none" /\ tfstate.exists) =>
          \A name \in last.req.attrs : FilledIn(tfstate.Attributes, name, last.answer)
    /\ (IsSearch /\ call.err = "none") =>
          \A i \in DOMAIN call.state.Results :
             \A name \in Range(call.req.attrs) :
                FilledIn(call.state.Results[i].Attributes, name, call.answers[i])

\* C15 witness: Read of the resource asked for mail and objectclass and the entry
\* has no mail; the data source asked for objectClass and mail below the parent,
\* which has no mail either: mail is there with an empty list in both.
C15_Witness ==
    /\ IsRead /\ last.err = "none" /\ tfstate.exists
    /\ last.req.attrs = {"objectclass", "mail"}
    /\ "mail" \notin DOMAIN last.answer
    /\ tfstate.Attributes.elems["mail"] = ListValue(<<>>)
    /\ IsSearch /\ call.err = "none"
    /\ call.req.attrs = <<"objectClass", "mail">>
    /\ Len(call.state.Results) = 2
    /\ "mail" \notin DOMAIN call.answers[1]
    /\ call.state.Results[1].Attributes.elems["mail"] = ListValue(<<>>)

\* C16: after every successful Read, the first one after an import included, the
\* names of the attributes in state are exactly the names Read requested.
C16_OnlyRequestedNames ==
    (IsRead /\ last.err = "none" /\ tfstate.exists) =>
        DOMAIN tfstate.Attributes.elems = last.req.attrs

\* C17: an Update whose operation list is non-empty issues exactly one modify
\* request, carrying all of its operations; one whose list is empty makes no call
\* to the client and succeeds; a failed modify is not sent again.
C17_OneModify ==
    IsUpdate =>
        LET ops == UpdateChanges(LastPlan, config, last.prior)
        IN /\ ops # EmptyBag =>
                 /\ last.calls = 1
                 /\ last.req = [kind |-> "modify", dn |-> LastPlan.DN, changes |-> ops]
           /\ ops = EmptyBag =>
                 /\ last.calls = 0
                 /\ last.req = NoRequest
                 /\ last.ok

\* C17 witness: a modify of two operations failed, and was sent once.
C17_Witness ==
    /\ IsUpdate
    /\ ~last.ok
    /\ last.calls = 1
    /\ BagCardinality(LastChanges) = 2

(***************************************************************************)
(* The latest Delete                                                       *)
(***************************************************************************)
IsDelete == last.op = "Delete"

\* C18: when the directory answers the search of a Read or the delete of a
\* Delete with "no such object", the operation reports no error and the resource
\* is gone from state; the only request of a Delete is the delete of the dn.
C18_NoSuchObjectIsAbsent ==
    /\ ((IsRead \/ IsDelete) /\ last.err = "noSuchObject") =>
          (last.ok /\ ~tfstate.exists)
    /\ (IsDelete /\ last.req # NoRequest) =>
          (last.calls = 1 /\ last.req = [kind |-> "del", dn |-> last.prior.DN])

\* C19: with no connection in r.client, every Create, Read, Update and Delete
\* ends with an error diagnostic (it does not crash and does not succeed), has
\* made no call on the client, and leaves state as it was.
C19_NilClientFails ==
    (client = "nil" /\ (IsCreate \/ IsRead \/ IsUpdate \/ IsDelete)) =>
        /\ ~last.ok
        /\ last.err # "panic"
        /\ last.calls = 0
        /\ ~IsRead => tfstate = last.prior

\* C20: a Create or Update in which the encoding of unicodePwd fails reports the
\* error, has issued no add or modify request (so no partly encoded attributes
\* left the provider), and leaves state as it was.
C20_EncodingFailureSendsNothing ==
    ((IsCreate \/ IsUpdate) /\ last.err = "encoding") =>
        /\ ~last.ok
        /\ last.calls = 0
        /\ last.req = NoRequest
        /\ tfstate = last.prior

\* C20 witness: an Update that had operations to send, unicodePwd from
\* attributes_wo among them, stopped at the encoding error.
C20_Witness ==
    /\ IsUpdate
    /\ last.err = "encoding"
    /\ "unicodePwd" \in SentWO
    /\ UpdateChanges(LastPlan, config, last.prior) # EmptyBag
    /\ tfstate = last.prior

(***************************************************************************)
(* The attribute values of the latest Create or Update, as configured       *)
(***************************************************************************)
\* The latest Create or Update took the write-only attributes into its request
MergedWO ==
    IF IsCreate THEN config.AttributesWO.kind # "null" ELSE Transmitted

\* The value list configured for name: the one of attributes_wo if the request
\* took the write-only attributes and they name it, else the planned one
ConfiguredValues(name) ==
    IF MergedWO /\ name \in DOMAIN config.AttributesWO.elems
    THEN config.AttributesWO.elems[name].elems
    ELSE LastPlan.Attributes.elems[name].elems

\* The value list name is to be transmitted with: every unicodePwd value in
\* double quotes and UTF-16LE, every other value as it is
Transmittable(name) ==
    IF name = "unicodePwd"
    THEN [i \in 1..Len(ConfiguredValues(name)) |-> encodeUnicodePwd(ConfiguredValues(name)[i])]
    ELSE ConfiguredValues(name)

\* C21: in every add and modify request, unicodePwd carries each configured
\* value encoded once (none raw, none encoded twice, none left out), and every
\* other attribute carries its configured values unchanged.
C21_UnicodePwdEncodedOnce ==
    /\ (IsCreate /\ last.req # NoRequest) =>
          \A name \in DOMAIN last.req.attrs :
             last.req.attrs[name] = Transmittable(name)
    /\ (IsUpdate /\ last.req # NoRequest) =>
          \A o \in BagToSet(last.req.changes) :
             o.op = "Replace" => o.vals = Transmittable(o.name)

(***************************************************************************)
(* The latest ImportState                                                  *)
(***************************************************************************)
\* The ID is the structured payload: a JSON object with a dn
IsPayload(id) == id.form = "json" /\ "dn" \in DOMAIN id.fields

\* The ID as the string given to terraform import
IDString(id) == IF id.form = "raw" THEN id.text ELSE ToString(id.fields)

\* The names an import recorded for the next Read; objectClass if it recorded none
RecordedNames(priv) ==
    IF priv = NoPrivate THEN {"objectClass"} ELSE {priv[i] : i \in 1..Len(priv)}

\* C22: ImportState with the structured payload sets dn to the dn of the payload
\* and records its attribute list; with any other ID it sets dn to the ID string
\* and records objectClass; the successful Read that follows leaves in state
\* exactly the recorded attributes.
C22_ImportThenRead ==
    [][ /\ last'.op = "ImportState" =>
             IF IsPayload(last'.id)
             THEN /\ tfstate'.DN = last'.id.fields.dn
                  /\ private' = IF "attributes" \in DOMAIN last'.id.fields
                                THEN last'.id.fields.attributes ELSE NoPrivate
             ELSE /\ tfstate'.DN = IDString(last'.id)
                  /\ private' = <<"objectClass">>
        /\ (ImportPending /\ last'.op = "Read" /\ last'.err = "none" /\ tfstate'.exists) =>
             DOMAIN tfstate'.Attributes.elems = RecordedNames(private) ]_vars

\* C23: every state a successful Create, Read or Update persists has id = dn;
\* no Read and no Update changes the dn in state; every modify and every delete
\* request is addressed to the dn in state (a changed dn in the configuration
\* is realised by Delete of the old entry and Create of the new one).
C23_IdIsDnAndDnIsStable ==
    [][ /\ (last'.op \in {"Create", "Read", "Update"} /\ last'.ok /\ tfstate'.exists) =>
              tfstate'.Id = tfstate'.DN
        /\ (last'.op \in {"Read", "Update"} /\ tfstate'.exists) =>
              tfstate'.DN = tfstate.DN
        /\ (last'.op \in {"Update", "Delete"} /\ last'.req # NoRequest) =>
              last'.req.dn = tfstate.DN ]_vars

\* C23 witness: the resource was imported and read (id = dn), then the dn of
\* the configuration differing from the one in state, Delete removed the entry
\* at the dn in state.
C23_Witness ==
    /\ IsDelete
    /\ last.ok
    /\ last.prior.Id = last.prior.DN
    /\ config.DN # last.prior.DN
    /\ last.req.dn = last.prior.DN

\* C24: the attributes in state never hold two names that are equal when
\* compared case-insensitively, and Update issues no operation for a name that
\* state holds, under another capitalisation, with the desired values.
C24_NamesCaseInsensitive ==
    /\ tfstate.exists =>
          \A a, b \in DOMAIN tfstate.Attributes.elems : Fold(a) = Fold(b) => a = b
    /\ IsUpdate =>
          \A k \in DOMAIN Desired : \A j \in DOMAIN Observed :
             (Fold(k) = Fold(j) /\ SameMultiset(Desired[k], Observed[j])) =>
                (OpsOn(k) = {} /\ OpsOn(j) = {})

(***************************************************************************)
(* Attributes the configuration leaves unmanaged (null)                    *)
(***************************************************************************)
\* Every list the configuration gives is what the entry holds, and there is no
\* write-only payload to send: nothing of the configuration is left to apply.
ManagedInEffect ==
    /\ dir.exists
    /\ config.AttributesWO = NullMap
    /\ tfstate.exists => config.AttributesWOVer = tfstate.AttributesWOVer
    /\ \A k \in DOMAIN config.Attributes.elems :
          config.Attributes.elems[k].kind # "null" =>
             IF config.Attributes.elems[k].elems = <<>>
             THEN Fold(k) \notin DOMAIN dir.attrs
             ELSE /\ Fold(k) \in DOMAIN dir.attrs
                  /\ dir.attrs[Fold(k)] = Range(config.Attributes.elems[k].elems)

\* The names the configuration sets to null that hold values on the entry
UnmanagedWithValues ==
    {k \in DOMAIN config.Attributes.elems :
        config.Attributes.elems[k].kind = "null" /\ Fold(k) \in DOMAIN dir.attrs}

\* The plan Terraform computes from the configuration and the state as it is
\* equals state: no Update follows.
PlanIsEmpty == ~PlanDiffers(PlanResource(config, tfstate), tfstate)

\* C25: for an attribute the configuration sets to null and that holds values
\* on the entry (set by another actor), a successful Read records those values
\* in state and the plan that follows is empty, nothing else being left to
\* apply: no Update runs and the values stay.
C25_UnmanagedValuesStay ==
    (IsRead /\ last.ok /\ tfstate.exists /\ ManagedInEffect) =>
        \A k \in UnmanagedWithValues :
            /\ k \in DOMAIN tfstate.Attributes.elems
            /\ Range(tfstate.Attributes.elems[k].elems) = dir.attrs[Fold(k)]
            /\ PlanIsEmpty

(***************************************************************************)
(* An attribute taken out of management                                    *)
(***************************************************************************)
\* The attributes the configuration now sets to null while state still holds
\* the list that was managed.
NowNull ==
    IF ~tfstate.exists \/ tfstate.Attributes.kind # "known"
       \/ config.Attributes.kind # "known"
    THEN {}
    ELSE {k \in DOMAIN config.Attributes.elems \cap DOMAIN tfstate.Attributes.elems :
            /\ config.Attributes.elems[k].kind = "null"
            /\ tfstate.Attributes.elems[k].kind = "known"
            /\ tfstate.Attributes.elems[k].elems # <<>>}

\* Nothing else of the configuration differs from state.
OthersUnchanged(k) ==
    /\ config.DN = tfstate.DN
    /\ tfstate.Id = tfstate.DN
    /\ config.AttributesWOVer = tfstate.AttributesWOVer
    /\ DOMAIN config.Attributes.elems = DOMAIN tfstate.Attributes.elems
    /\ \A j \in DOMAIN config.Attributes.elems \ {k} :
          config.Attributes.elems[j] = tfstate.Attributes.elems[j]

\* C26: when an attribute goes from a managed list to null and nothing else of
\* the configuration differs from state, the plan is empty, so that no Update
\* runs and no Replace or Delete is issued for it.
C26_NullLeavesValues ==
    \A k \in NowNull : OthersUnchanged(k) => PlanIsEmpty

\* C26, the refresh: in that situation, the managed attributes being in effect
\* on the entry, a successful Read leaves the entry as it is, records for the
\* attribute the values the entry holds, and the plan stays empty.
C26_NullThenRefresh ==
    [][\A k \in NowNull :
          (OthersUnchanged(k) /\ ManagedInEffect /\ IsRead' /\ last'.ok /\ tfstate'.exists) =>
              /\ dir' = dir
              /\ k \in DOMAIN tfstate'.Attributes.elems
              /\ Range(tfstate'.Attributes.elems[k].elems) =
                    (IF Fold(k) \in DOMAIN dir.attrs THEN dir.attrs[Fold(k)] ELSE {})
              /\ PlanIsEmpty']_vars

\* The same with a server that answers with the names as they were requested.
C26_NullThenRefreshAsRequested ==
    [][\A k \in NowNull :
          (server.echo /\ OthersUnchanged(k) /\ ManagedInEffect /\ IsRead' /\ last'.ok /\ tfstate'.exists) =>
              /\ dir' = dir
              /\ k \in DOMAIN tfstate'.Attributes.elems
              /\ Range(tfstate'.Attributes.elems[k].elems) =
                    (IF Fold(k) \in DOMAIN dir.attrs THEN dir.attrs[Fold(k)] ELSE {})
              /\ PlanIsEmpty']_vars

\* A refresh after which the attribute set to null shows both values of the
\* entry and the plan is empty.
C26_Witness ==
    /\ IsRead /\ last.ok /\ tfstate.exists
    /\ \E k \in NowNull :
          /\ OthersUnchanged(k)
          /\ Range(tfstate.Attributes.elems[k].elems) = {"a", "b"}
          /\ DOMAIN config.Attributes.elems = AttrNames
    /\ PlanIsEmpty

(***************************************************************************)
(* An unmanaged attribute set to the empty list                            *)
(***************************************************************************)
\* The attributes the configuration sets to the empty list while the state st
\* holds values for them.
NowEmpty(st) ==
    IF ~st.exists \/ st.Attributes.kind # "known" \/ config.Attributes.kind # "known"
    THEN {}
    ELSE {k \in DOMAIN config.Attributes.elems \cap DOMAIN st.Attributes.elems :
            /\ config.Attributes.elems[k] = ListValue(<<>>)
            /\ st.Attributes.elems[k].kind = "known"
            /\ st.Attributes.elems[k].elems # <<>>}

\* C27: when the configuration sets an attribute to the empty list and state
\* holds values for it, the plan is not empty; the Update that applies it sends
\* one modify request with exactly Delete for that attribute, and when it
\* succeeds state holds the empty list for it.
C27_EmptyListClears ==
    /\ \A k \in NowEmpty(tfstate) : ~PlanIsEmpty
    /\ IsUpdate =>
          \A k \in NowEmpty(last.prior) \ SentWO :
              /\ last.calls = 1
              /\ OpsOn(k) = {Delete(k)}
              /\ CopiesIn(Delete(k), LastChanges) = 1
              /\ last.ok => tfstate.Attributes.elems[k] = ListValue(<<>>)

\* An Update that cleared objectclass while state held both values for it: the
\* entry no longer holds the attribute and state holds the empty list.
C27_Witness ==
    /\ IsUpdate /\ last.ok
    /\ "objectclass" \in NowEmpty(last.prior)
    /\ Range(last.prior.Attributes.elems["objectclass"].elems) = {"a", "b"}
    /\ OpsOn("objectclass") = {Delete("objectclass")}
    /\ tfstate.Attributes.elems["objectclass"] = ListValue(<<>>)
    /\ "objectclass" \notin DOMAIN dir.attrs

(***************************************************************************)
(* The scope of the data source                                            *)
(***************************************************************************)
\* The scope the latest search of the data source works with
EffectiveScope ==
    IF call.data.Scope.kind = "null" THEN "sub" ELSE call.data.Scope.value

\* The DNs of the results the latest search wrote to state
ResultDNs == {call.state.Results[i].DN : i \in DOMAIN call.state.Results}

\* C28: the data source searches with scope "sub" when none is configured;
\* "base" is sent as the base-object scope (0) and returns the base entry only,
\* "one" as the single-level scope (1) and returns only entries below the base,
\* "sub" as the whole-subtree scope (2) and returns the base and what is below
\* it; any other scope string ends in an error with no search issued and no
\* result written to state.
C28_ScopeOfSearch ==
    IsSearch =>
        /\ EffectiveScope \in {"base", "one", "sub"} =>
              /\ call.err # "scope"
              /\ call.calls = 1 =>
                    call.req.scope = (CASE EffectiveScope = "base" -> 0
                                        [] EffectiveScope = "one" -> 1
                                        [] EffectiveScope = "sub" -> 2)
              /\ call.err = "none" =>
                    /\ call.state.exists
                    /\ call.state.Scope = ScopeValue(EffectiveScope)
                    /\ EffectiveScope = "base" => ResultDNs = {call.data.BaseDN}
                    /\ EffectiveScope = "one" =>
                          ResultDNs = IF call.data.BaseDN = BaseDN /\ dir.exists
                                      THEN {TheDN} ELSE {}
                    /\ EffectiveScope = "sub" =>
                          ResultDNs = {call.data.BaseDN} \cup
                                      (IF call.data.BaseDN = BaseDN /\ dir.exists
                                       THEN {TheDN} ELSE {})
        /\ EffectiveScope \notin {"base", "one", "sub"} =>
              /\ call.err = "scope"
              /\ call.calls = 0
              /\ call.req = NoRequest
              /\ call.state = NoData

\* C28 witness: no scope configured, the search went out with the whole-subtree
\* scope from the parent and returned the parent and the entry below it.
C28_Witness ==
    /\ IsSearch /\ call.err = "none"
    /\ call.data.Scope = NullScope
    /\ call.req.scope = 2
    /\ call.state.Scope = ScopeValue("sub")
    /\ ResultDNs = {BaseDN, TheDN}

(***************************************************************************)
(* Read of an entry that is gone, and a Read that fails                    *)
(***************************************************************************)
\* C29: a Read whose search succeeds and returns no entry reports no error
\* and removes the resource from state, writing no attributes; a Read whose
\* search fails reports an error and leaves the prior state in place.
C29_ReadGoneOrFailed ==
    [][(tfstate.exists /\ IsRead' /\ last' # last) =>
          /\ (last'.ok /\ ~EntryAt(tfstate.DN)) =>
                /\ last'.err = "none"
                /\ last'.calls = 1
                /\ tfstate' = [exists |-> FALSE]
          /\ ~last'.ok =>
                /\ last'.err # "none"
                /\ tfstate' = tfstate]_vars

\* C29 witness: the entry was removed by another actor, the search of Read
\* came back without an entry and without an error, and the resource is gone
\* from state.
C29_Witness ==
    /\ IsRead /\ last.ok /\ last.err = "none" /\ last.calls = 1
    /\ ~dir.exists
    /\ ~tfstate.exists

====
